---- MODULE Spec2Model ----
(***************************************************************************)
(* Model of the TFTP server of pxe-server (tftp/src/lib.rs): the transfer  *)
(* table keyed by remote endpoint, the RRQ parser, the block pump and the  *)
(* packet encoders.  Byte strings are sequences of naturals in 0..255.     *)
(* Option<T> is a sequence of length 0 (None) or 1 (Some), io::Result<T>   *)
(* is a record with an ok flag.                                            *)
(***************************************************************************)
EXTENDS Integers, Sequences, FiniteSets, TLC

(* ------------------------------ bounds --------------------------------- *)

\* ACKs are handled only while the transfer has produced fewer blocks than
\* this; it caps block_cnt, which the code lets grow (and wrap) freely.
MaxBlocks == 5

(* ------------------------- protocol constants -------------------------- *)

RRQ == 1
WRQ == 2
DATA == 3
ACK == 4
ERROR == 5
OPT_ACK == 6
DefaultBlksize == 1488
U16 == 65536

None == <<>>
Some(x) == <<x>>

Min(a, b) == IF a < b THEN a ELSE b

(* ------------------------------ strings -------------------------------- *)

\* ASCII of the literals that occur in the source.
StrBlksize == <<98, 108, 107, 115, 105, 122, 101>>
StrTsize == <<116, 115, 105, 122, 101>>
MsgNoSuchFile == <<78, 111, 32, 115, 117, 99, 104, 32, 102, 105, 108, 101, 46>>
MsgUnsupported ==
    <<85, 110, 115, 117, 112, 111, 114, 116, 101, 100, 32, 111, 112, 101,
      114, 97, 116, 105, 111, 110, 46>>
MsgUnableToRead ==
    <<85, 110, 97, 98, 108, 101, 32, 116, 111, 32, 114, 101, 97, 100, 32,
      110, 101, 120, 116, 32, 98, 108, 111, 99, 107, 46>>

\* str_to_bytes: the string's bytes followed by one NUL.
str_to_bytes(string) == string \o <<0>>

\* u16::to_string / usize::to_string: decimal digits, no sign, no padding.
RECURSIVE to_string(_)
to_string(num) ==
    IF num < 10 THEN <<48 + num>>
    ELSE to_string(num \div 10) \o <<48 + (num % 10)>>

\* std::str::from_utf8(...).is_ok() on the byte domain of this model, which
\* holds ASCII octets and 0xFF only: ASCII is valid, 0xFF never is.
from_utf8_ok(bytes) == \A i \in 1..Len(bytes) : bytes[i] < 128

\* The digit fold of str::parse::<u16>: checked multiply-and-add, None as
\* soon as a byte is not a digit or the value leaves the u16 range.
RECURSIVE parse_digits(_, _, _)
parse_digits(digits, i, acc) ==
    IF i > Len(digits) THEN Some(acc)
    ELSE IF digits[i] < 48 \/ digits[i] > 57 THEN None
    ELSE IF acc * 10 + (digits[i] - 48) >= U16 THEN None
    ELSE parse_digits(digits, i + 1, acc * 10 + (digits[i] - 48))

\* str::parse::<u16>: empty is an error, a lone sign is an error, one
\* leading '+' is accepted, '-' is not a digit.
parse_u16(string) ==
    IF Len(string) = 0 THEN None
    ELSE IF Len(string) = 1 /\ string[1] \in {43, 45} THEN None
    ELSE IF string[1] = 43 THEN parse_digits(Tail(string), 1, 0)
    ELSE parse_digits(string, 1, 0)

\* slice::split(|b| *b == sep): the chunks between separators; n separators
\* give n + 1 chunks, empty ones included.
RECURSIVE split(_, _, _, _)
split(bytes, sep, i, cur) ==
    IF i > Len(bytes) THEN <<cur>>
    ELSE IF bytes[i] = sep THEN <<cur>> \o split(bytes, sep, i + 1, <<>>)
    ELSE split(bytes, sep, i + 1, Append(cur, bytes[i]))

\* slice::windows(2): every pair of adjacent elements, overlapping.
windows2(chunks) ==
    [i \in 1..(IF Len(chunks) < 2 THEN 0 ELSE Len(chunks) - 1) |->
        <<chunks[i], chunks[i + 1]>>]

(* ----------------------------- file system ----------------------------- *)

NameF == <<102>>
NameG == <<103>>
NameMissing == <<110>>

\* The files under ROOT_DIR: name |-> contents.  Any other name fails to open.
Files == (NameF :> <<11, 12, 13>>) @@ (NameG :> <<21, 22>>)

(* ------------------------------ encoders ------------------------------- *)

\* TFTP::data writing the block number low octet first.
data_le(block, bytes) ==
    <<0, DATA, block % 256, block \div 256>> \o bytes

data(block, bytes) ==
    <<0, DATA, block \div 256, block % 256>> \o bytes

ack(block) ==
    <<0, ACK, block \div 256, block % 256>>

option_to_bytes(name, option) ==
    IF option = None THEN <<>>
    ELSE str_to_bytes(name) \o str_to_bytes(option[1])

opt_ack(blksize, tsize) ==
    <<0, OPT_ACK>>
        \o option_to_bytes(StrBlksize,
                IF blksize = None THEN None ELSE Some(to_string(blksize[1])))
        \o option_to_bytes(StrTsize,
                IF tsize = None THEN None ELSE Some(to_string(tsize[1])))

error(code, msg) ==
    <<0, ERROR, code \div 256, code % 256>> \o str_to_bytes(msg)

(* ----------------------------- TFTPTransfer ---------------------------- *)

Ok(v) == [ok |-> TRUE, val |-> v]
Err == [ok |-> FALSE]

\* TFTPTransfer::new: open ROOT_DIR/path; the handle is the file's name and
\* the read position.
TFTPTransfer_new(block_sz, path_str) ==
    IF path_str \in DOMAIN Files
    THEN Ok([block_cnt |-> 0, done |-> FALSE, block_sz |-> block_sz,
             file |-> path_str, pos |-> 0])
    ELSE Err

\* File::read into a buffer of block_sz octets: the octets from the read
\* position up to the buffer size or end of file, or an I/O error.
file_read(t, fails) ==
    IF fails THEN Err
    ELSE Ok(SubSeq(Files[t.file], t.pos + 1,
                   Min(Len(Files[t.file]), t.pos + t.block_sz)))

\* next_block counting blocks without wrapping at 2^16.
next_block_nowrap(t, fails) ==
    IF t.done THEN [t |-> t, blk |-> None]
    ELSE LET rd == file_read(t, fails)
             bytes_read == IF rd.ok THEN Len(rd.val) ELSE 0
             buff_trim == IF rd.ok THEN rd.val ELSE <<>>
         IN  [t |-> [t EXCEPT !.block_cnt = t.block_cnt + 1,
                              !.done = ((bytes_read % U16) # t.block_sz),
                              !.pos = t.pos + bytes_read],
              blk |-> Some(buff_trim)]

\* TFTPTransfer::next_block: [t |-> the transfer afterwards, blk |-> Option].
next_block(t, fails) ==
    IF t.done THEN [t |-> t, blk |-> None]
    ELSE LET rd == file_read(t, fails)
             bytes_read == IF rd.ok THEN Len(rd.val) ELSE 0
             buff_trim == IF rd.ok THEN rd.val ELSE <<>>
         IN  [t |-> [t EXCEPT !.block_cnt = (t.block_cnt + 1) % U16,
                              !.done = ((bytes_read % U16) # t.block_sz),
                              !.pos = t.pos + bytes_read],
              blk |-> Some(buff_trim)]

tsize(t) == Len(Files[t.file])

(* ------------------------------ parse_rrq ------------------------------ *)

\* The fold over the remaining windows: a window whose two chunks are both
\* UTF-8 inserts key |-> value, replacing an earlier value of the key.
RECURSIVE fold_options(_, _, _)
fold_options(wins, i, acc) ==
    IF i > Len(wins) THEN acc
    ELSE LET key == wins[i][1]
             value == wins[i][2]
         IN  IF from_utf8_ok(key) /\ from_utf8_ok(value)
             THEN fold_options(wins, i + 1,
                    [k \in (DOMAIN acc) \cup {key} |->
                        IF k = key THEN value ELSE acc[k]])
             ELSE fold_options(wins, i + 1, acc)

EmptyMap == [k \in {} |-> <<>>]

parse_rrq(bytes) ==
    LET opcode == IF Len(bytes) >= 2 THEN <<bytes[1], bytes[2]>> ELSE <<0, 0>>
    IN  IF opcode # <<0, RRQ>> THEN Err
        ELSE
          LET rest == SubSeq(bytes, 3, Len(bytes))
              chunks == split(rest, 0, 1, <<>>)
              wins == windows2(chunks)
          IN  IF Len(wins) = 0 THEN Err
              ELSE
                LET filname == wins[1][1]
                    options == fold_options(wins, 2, EmptyMap)
                    parsed == IF StrBlksize \in DOMAIN options
                              THEN parse_u16(options[StrBlksize])
                              ELSE None
                    blksize == IF parsed = None THEN DefaultBlksize
                               ELSE parsed[1]
                IN  IF ~from_utf8_ok(filname) THEN Err
                    ELSE TFTPTransfer_new(blksize, filname)

(* ------------------------------ TFTPServer ----------------------------- *)

Clients == {"a", "b"}

\* insert dropping the entries of all other keys.
insert_alone(trs, key, t) ==
    [k \in {key} |-> t]

\* HashMap::insert.
insert(trs, key, t) ==
    [k \in (DOMAIN trs) \cup {key} |-> IF k = key THEN t ELSE trs[k]]

remove(trs, key) ==
    [k \in (DOMAIN trs) \ {key} |-> trs[k]]

\* send_next leaving a finished transfer in the table.
send_next_keep(trs, to, fails) ==
    LET is_done == IF to \in DOMAIN trs THEN trs[to].done ELSE FALSE
    IN  IF is_done
        THEN [transfers |-> trs, res |-> Err, io |-> "none"]
        ELSE IF to \notin DOMAIN trs
        THEN [transfers |-> trs, res |-> Ok(error(2, MsgUnableToRead)),
              io |-> "none"]
        ELSE LET nb == next_block(trs[to], fails)
             IN  [transfers |-> [trs EXCEPT ![to] = nb.t],
                  res |-> Ok(data(nb.t.block_cnt, nb.blk[1])),
                  io |-> IF fails THEN "err" ELSE "ok"]

\* send_next answering the ACK of a finished transfer with an ERROR packet
\* in place of the io::Error it hands back to the loop.
send_next_reply(trs, to, fails) ==
    LET is_done == IF to \in DOMAIN trs THEN trs[to].done ELSE FALSE
    IN  IF is_done
        THEN [transfers |-> remove(trs, to),
              res |-> Ok(error(0, MsgUnableToRead)), io |-> "none"]
        ELSE IF to \notin DOMAIN trs
        THEN [transfers |-> trs, res |-> Ok(error(2, MsgUnableToRead)),
              io |-> "none"]
        ELSE LET nb == next_block(trs[to], fails)
             IN  [transfers |-> [trs EXCEPT ![to] = nb.t],
                  res |-> Ok(data(nb.t.block_cnt, nb.blk[1])),
                  io |-> IF fails THEN "err" ELSE "ok"]

\* TFTPServer::send_next: [transfers |-> the table afterwards,
\* res |-> io::Result<Vec<u8>>, io |-> outcome of the file read, if any].
send_next(trs, to, fails) ==
    LET is_done == IF to \in DOMAIN trs THEN trs[to].done ELSE FALSE
    IN  IF is_done
        THEN [transfers |-> remove(trs, to), res |-> Err, io |-> "none"]
        ELSE IF to \notin DOMAIN trs
        THEN [transfers |-> trs, res |-> Ok(error(2, MsgUnableToRead)),
              io |-> "none"]
        ELSE LET nb == next_block(trs[to], fails)
             IN  [transfers |-> [trs EXCEPT ![to] = nb.t],
                  res |-> IF nb.blk = None
                          THEN Ok(error(2, MsgUnableToRead))
                          ELSE Ok(data(nb.t.block_cnt, nb.blk[1])),
                  io |-> IF trs[to].done THEN "none"
                         ELSE IF fails THEN "err" ELSE "ok"]

\* The RRQ arm dropping the sender's transfer when the request fails.
listen_rrq_evict(trs, from, buf) ==
    LET pr == parse_rrq(buf)
    IN  IF pr.ok
        THEN [transfers |-> insert(trs, from, pr.val),
              res |-> Ok(opt_ack(Some(pr.val.block_sz), Some(tsize(pr.val)))),
              io |-> "none"]
        ELSE [transfers |-> remove(trs, from),
              res |-> Ok(error(1, MsgNoSuchFile)), io |-> "none"]

\* The RRQ arm of listen keeping the transfer an endpoint already has.
listen_rrq_keep(trs, from, buf) ==
    LET pr == parse_rrq(buf)
    IN  IF pr.ok
        THEN [transfers |-> IF from \in DOMAIN trs THEN trs
                            ELSE insert(trs, from, pr.val),
              res |-> Ok(opt_ack(Some(pr.val.block_sz), Some(tsize(pr.val)))),
              io |-> "none"]
        ELSE [transfers |-> trs, res |-> Ok(error(1, MsgNoSuchFile)),
              io |-> "none"]

\* The RRQ arm of listen: parse, answer OACK and insert, or answer ERROR 1.
listen_rrq(trs, from, buf) ==
    LET pr == parse_rrq(buf)
    IN  IF pr.ok
        THEN [transfers |-> insert(trs, from, pr.val),
              res |-> Ok(opt_ack(Some(pr.val.block_sz), Some(tsize(pr.val)))),
              io |-> "none"]
        ELSE [transfers |-> trs, res |-> Ok(error(1, MsgNoSuchFile)),
              io |-> "none"]

\* TFTPServer::listen after recv_from: dispatch on buf.get(1).
listen(trs, from, buf, fails) ==
    IF Len(buf) < 2
    THEN [transfers |-> trs, res |-> Err, io |-> "none"]
    ELSE IF buf[2] = RRQ THEN listen_rrq(trs, from, buf)
    ELSE IF buf[2] = ACK THEN send_next(trs, from, fails)
    ELSE [transfers |-> trs, res |-> Ok(error(20, MsgUnsupported)),
          io |-> "none"]

(* ------------------------------- inputs -------------------------------- *)

StrOctet == <<111, 99, 116, 101, 116>>
StrX == <<120>>
StrY == <<121>>
Dec0 == <<48>>
Dec1 == <<49>>
Dec2 == <<50>>
DecPlus2 == <<43, 50>>
Dec70000 == <<55, 48, 48, 48, 48>>

RECURSIVE Strings(_)
Strings(fields) ==
    IF fields = <<>> THEN <<>>
    ELSE str_to_bytes(Head(fields)) \o Strings(Tail(fields))

\* The NUL-terminated strings that follow the opcode of the read requests
\* clients send: filename, mode, then option names and values.
RrqFields ==
    { <<NameF, StrOctet>>,
      <<NameG, StrOctet>>,
      <<NameMissing, StrOctet>>,
      <<NameF>>,
      <<>>,
      <<<<255>>, StrOctet>>,
      <<NameF, StrOctet, StrBlksize, Dec0>>,
      <<NameF, StrOctet, StrBlksize, Dec1>>,
      <<NameF, StrOctet, StrBlksize, Dec2>>,
      <<NameG, StrOctet, StrBlksize, Dec2>>,
      <<NameF, StrOctet, StrBlksize, DecPlus2>>,
      <<NameF, StrOctet, StrBlksize, StrX>>,
      <<NameF, StrOctet, StrBlksize, Dec70000>>,
      <<NameF, StrOctet, StrTsize, Dec0>>,
      <<NameF, StrOctet, StrTsize, Dec0, StrBlksize, Dec2>>,
      <<NameF, StrOctet, StrBlksize, Dec2, StrBlksize, Dec1>>,
      <<NameF, StrOctet, StrX, StrBlksize, Dec2, StrY>>,
      <<NameF, StrBlksize, Dec2>>,
      <<NameMissing, StrOctet, StrBlksize, Dec2>> }

AckBlocks == {0, 1, 2, 7}

\* What the first endpoint may send: read requests in every shape above,
\* acknowledgements, other opcodes, and datagrams too short for an opcode.
DatagramsA ==
    { <<0, RRQ>> \o Strings(fs) : fs \in RrqFields }
        \cup { <<1, RRQ>> \o Strings(<<NameF, StrOctet>>), <<0, RRQ>> \o NameF }
        \cup { ack(n) : n \in AckBlocks }
        \cup { <<0, ACK>>, <<1, ACK, 0, 0>> }
        \cup { <<0, WRQ>> \o Strings(<<NameF, StrOctet>>),
               data(1, <<11>>), error(0, StrX), <<0, OPT_ACK>>, <<0, 0>>,
               <<RRQ, 0>> }
        \cup { <<>>, <<0>>, <<ACK>> }

\* The second endpoint runs plain transfers of the other file beside it.
DatagramsB ==
    { <<0, RRQ>> \o Strings(<<NameG, StrOctet>>),
      <<0, RRQ>> \o Strings(<<NameMissing, StrOctet>>),
      ack(0),
      <<0, WRQ>> \o Strings(<<NameG, StrOctet>>),
      <<0>> }

Datagrams(c) == IF c = "a" THEN DatagramsA ELSE DatagramsB

(* ------------------------------- state --------------------------------- *)

VARIABLES
    transfers,  \* TFTPServer.transfers: endpoint |-> TFTPTransfer
    rcvd,       \* Option: the datagram of the last loop iteration and its sender
    io,         \* outcome of File::read in the last iteration: none, ok or err
    sent,       \* Option: the datagram the last iteration sent back
    wire,       \* endpoint |-> the DATA datagrams sent to it since its last OACK
    last,       \* endpoint |-> Option: the last of these DATA datagrams
    replaced,   \* endpoint |-> Option: <<file, block_cnt>> of the transfer
                \* its present transfer was inserted over (kept by
                \* SpecReplace only)
    call,       \* Option: the last call of a library function, [fn, inp, out]
    pxeb,       \* the PXEBuilder under construction: its options
    dgb         \* the DHCPDgramBuilder under construction: [dhcp, options]

tftp_vars == <<transfers, rcvd, io, sent, wire, last, replaced>>

vars ==
    <<transfers, rcvd, io, sent, wire, last, replaced, call, pxeb, dgb>>

\* TFTPServer::new: an empty transfer table, nothing received or sent yet.
TftpInit ==
    /\ transfers = [k \in {} |-> 0]
    /\ rcvd = None
    /\ io = "none"
    /\ sent = None
    /\ wire = [c \in Clients |-> <<>>]
    /\ last = [c \in Clients |-> None]
    /\ replaced = [c \in Clients |-> None]

\* No library call made yet, PXEBuilder::default(), DHCPDgramBuilder::default().
LibInit ==
    /\ call = None
    /\ pxeb = <<>>
    /\ dgb = [dhcp |-> None, options |-> <<>>]

Init == TftpInit /\ LibInit

\* One iteration of the loop in TFTPServer::start, but for the record of
\* all the DATA datagrams sent.
Served(from, buf, fails) ==
    LET r == listen(transfers, from, buf, fails)
        inserted == Len(buf) >= 2 /\ buf[2] = RRQ /\ r.res.ok
                        /\ r.res.val[2] = OPT_ACK
    IN  /\ transfers' = r.transfers
        /\ rcvd' = Some([from |-> from, buf |-> buf])
        /\ io' = r.io
        /\ sent' = IF r.res.ok THEN Some(r.res.val) ELSE None
        /\ last' = [last EXCEPT ![from] =
                      IF inserted THEN None
                      ELSE IF r.res.ok /\ r.res.val[2] = DATA
                      THEN Some(r.res.val)
                      ELSE @]
        /\ UNCHANGED <<call, pxeb, dgb>>

\* One iteration of the loop in TFTPServer::start, with the record of the
\* DATA datagrams sent.
Recorded(from, buf, fails) ==
    LET r == listen(transfers, from, buf, fails)
        inserted == Len(buf) >= 2 /\ buf[2] = RRQ /\ r.res.ok
                        /\ r.res.val[2] = OPT_ACK
    IN  /\ Served(from, buf, fails)
        /\ wire' = [wire EXCEPT ![from] =
                      IF inserted THEN <<>>
                      ELSE IF r.res.ok /\ r.res.val[2] = DATA
                      THEN Append(@, r.res.val)
                      ELSE @]

\* One iteration of the loop in TFTPServer::start.
Iteration(from, buf, fails) ==
    /\ Recorded(from, buf, fails)
    /\ UNCHANGED replaced

RecvShort ==
    \E from \in Clients : \E buf \in Datagrams(from) :
        /\ Len(buf) < 2
        /\ Iteration(from, buf, FALSE)

RecvRRQ ==
    \E from \in Clients : \E buf \in Datagrams(from) :
        /\ Len(buf) >= 2 /\ buf[2] = RRQ
        /\ Iteration(from, buf, FALSE)

RecvACK ==
    \E from \in Clients : \E buf \in Datagrams(from), fails \in BOOLEAN :
        /\ Len(buf) >= 2 /\ buf[2] = ACK
        /\ (from \in DOMAIN transfers /\ ~transfers[from].done)
                => transfers[from].block_cnt < MaxBlocks
        /\ Iteration(from, buf, fails)

RecvOther ==
    \E from \in Clients : \E buf \in Datagrams(from) :
        /\ Len(buf) >= 2 /\ buf[2] \notin {RRQ, ACK}
        /\ Iteration(from, buf, FALSE)

Next == RecvShort \/ RecvRRQ \/ RecvACK \/ RecvOther

Spec == Init /\ [][Next]_vars

TypeOK ==
    /\ DOMAIN transfers \subseteq Clients
    /\ \A c \in DOMAIN transfers :
        /\ transfers[c].block_cnt \in 0..MaxBlocks
        /\ transfers[c].block_sz \in 0..(U16 - 1)
        /\ transfers[c].done \in BOOLEAN
        /\ transfers[c].file \in DOMAIN Files
        /\ transfers[c].pos \in 0..Len(Files[transfers[c].file])

(* ------------------------- reading the wire ---------------------------- *)

\* A datagram whose two-octet big-endian opcode is op.
IsOp(p, op) == Len(p) >= 2 /\ p[1] = 0 /\ p[2] = op

\* The 16-bit big-endian number in octets 2..3 of an ACK, DATA or ERROR.
BlockOf(p) == p[3] * 256 + p[4]

Payload(p) == SubSeq(p, 5, Len(p))

RECURSIVE Concat(_)
Concat(packets) ==
    IF packets = <<>> THEN <<>>
    ELSE Payload(Head(packets)) \o Concat(Tail(packets))

LastFrom == rcvd[1].from
LastBuf == rcvd[1].buf

Replied(op) == sent # None /\ IsOp(sent[1], op)

(* ------------------------------ C1 .. C5 ------------------------------- *)

\* C1: when a transfer has its done flag set, the payloads of the DATA
\* packets sent for it, in the order sent, concatenate to the file's bytes;
\* every block but the last has block_sz octets and the last has fewer.
C1Orig ==
    \A c \in DOMAIN transfers :
        transfers[c].done =>
            LET w == wire[c]
                b == transfers[c].block_sz
            IN  /\ Len(w) >= 1
                /\ Concat(w) = Files[transfers[c].file]
                /\ \A i \in 1..(Len(w) - 1) : Len(Payload(w[i])) = b
                /\ Len(Payload(w[Len(w)])) < b

\* C2: a DATA packet with block number n + 1 is sent only in answer to an
\* ACK datagram that carries block number n.
C2Orig ==
    Replied(DATA) =>
        /\ IsOp(LastBuf, ACK)
        /\ Len(LastBuf) >= 4
        /\ BlockOf(sent[1]) = (BlockOf(LastBuf) + 1) % U16

\* C3: every transfer terminates: a file of L octets is exhausted after at
\* most L + 1 blocks of any accepted block size, so a transfer that has
\* produced that many blocks has sent its short final block and is done.
C3Orig ==
    \A c \in DOMAIN transfers :
        transfers[c].block_cnt >= Len(Files[transfers[c].file]) + 1
            => transfers[c].done

\* C4: once a transfer is done, the next ACK of its endpoint removes the
\* entry without a DATA packet being sent, no datagram of the endpoint is
\* answered with DATA while the done entry is in the table, and an endpoint
\* without an entry gets one only by sending an RRQ.
C4Thm ==
    [][\A c \in Clients :
        /\ (c \in DOMAIN transfers /\ transfers[c].done /\ rcvd'[1].from = c)
            => /\ ~(sent' # None /\ IsOp(sent'[1], DATA))
               /\ IsOp(rcvd'[1].buf, ACK) => c \notin DOMAIN transfers'
        /\ (c \notin DOMAIN transfers /\ c \in DOMAIN transfers')
            => (rcvd'[1].from = c /\ IsOp(rcvd'[1].buf, RRQ))]_vars

\* A finished transfer of several blocks has just been removed by an ACK.
C4Wit ==
    /\ rcvd # None /\ LastFrom = "a" /\ IsOp(LastBuf, ACK)
    /\ "a" \notin DOMAIN transfers
    /\ sent = None
    /\ Len(wire["a"]) >= 2
    /\ Concat(wire["a"]) = Files[NameF]

\* C5 as stated: the ACK that finds the transfer done removes the entry and
\* is answered with an ERROR packet.
C5Orig ==
    [][\A c \in Clients :
        (c \in DOMAIN transfers /\ transfers[c].done
            /\ rcvd'[1].from = c /\ IsOp(rcvd'[1].buf, ACK))
        => (c \notin DOMAIN transfers'
            /\ sent' # None /\ IsOp(sent'[1], ERROR))]_vars

\* C5 as amended: the ACK that finds the transfer done removes the entry and
\* is answered with nothing at all.
C5Thm ==
    [][\A c \in Clients :
        (c \in DOMAIN transfers /\ transfers[c].done
            /\ rcvd'[1].from = c /\ IsOp(rcvd'[1].buf, ACK))
        => (c \notin DOMAIN transfers' /\ sent' = None)]_vars

\* An ACK from an endpoint has just closed its transfer: nothing was sent.
C5Wit ==
    \E c \in Clients :
        /\ rcvd # None /\ LastFrom = c /\ IsOp(LastBuf, ACK)
        /\ c \notin DOMAIN transfers
        /\ sent = None
        /\ wire[c] # <<>>

(* ------------------------ reading a read request ----------------------- *)

\* The NUL-terminated strings that follow the opcode of a datagram; octets
\* after the last NUL are not a string.
StringsOf(p) ==
    LET chunks == split(SubSeq(p, 3, Len(p)), 0, 1, <<>>)
    IN  SubSeq(chunks, 1, Len(chunks) - 1)

\* A read request's options: after filename and mode, the strings taken two
\* by two as (name, value); a last string without a partner is no option.
OptionPairs(p) ==
    LET strs == StringsOf(p)
    IN  [i \in 1..((Len(strs) - 2) \div 2) |->
            <<strs[2 * i + 1], strs[2 * i + 2]>>]

\* Option: the value the request gives for the option of that name (the
\* last one, should the name be repeated).
Requested(p, name) ==
    LET ps == OptionPairs(p)
        is == {i \in 1..Len(ps) : ps[i][1] = name}
    IN  IF is = {} THEN None
        ELSE Some(ps[CHOOSE i \in is : \A j \in is : j <= i][2])

\* The block size a read request asks for: its blksize option when that is
\* a u16, else the default.
RequestedBlksize(p) ==
    LET v == Requested(p, StrBlksize)
    IN  IF v = None THEN DefaultBlksize
        ELSE IF parse_u16(v[1]) = None THEN DefaultBlksize
        ELSE parse_u16(v[1])[1]

\* A read request naming a file that exists under the root directory.
NamesFile(p) ==
    /\ IsOp(p, RRQ)
    /\ StringsOf(p) # <<>>
    /\ StringsOf(p)[1] \in DOMAIN Files

\* The (name, value) entries of an OACK: its strings taken two by two.
OackPairs(p) ==
    LET strs == StringsOf(p)
    IN  [i \in 1..(Len(strs) \div 2) |-> <<strs[2 * i - 1], strs[2 * i]>>]

OackValues(p, name) ==
    {OackPairs(p)[i][2] : i \in {j \in 1..Len(OackPairs(p)) :
                                    OackPairs(p)[j][1] = name}}

(* ------------------------------ C6 .. C10 ------------------------------ *)

\* C6: after an RRQ whose file opens the table holds, for the sender, an
\* entry with block_cnt 0, done unset and block_sz the value of the
\* request's blksize option if it has one that is a u16, else 1488; the
\* reply is an OACK.
C6Orig ==
    (rcvd # None /\ NamesFile(LastBuf)) =>
        /\ Replied(OPT_ACK)
        /\ LastFrom \in DOMAIN transfers
        /\ transfers[LastFrom].block_cnt = 0
        /\ transfers[LastFrom].done = FALSE
        /\ transfers[LastFrom].block_sz = RequestedBlksize(LastBuf)

\* C7: the OACK lists blksize only if the request carried a blksize option
\* and tsize only if it carried a tsize option; a listed blksize is the
\* transfer's block size and a listed tsize the file's length, in decimal.
C7Orig ==
    (rcvd # None /\ IsOp(LastBuf, RRQ) /\ Replied(OPT_ACK)) =>
        /\ OackValues(sent[1], StrBlksize) # {}
            => Requested(LastBuf, StrBlksize) # None
        /\ OackValues(sent[1], StrTsize) # {}
            => Requested(LastBuf, StrTsize) # None
        /\ OackValues(sent[1], StrBlksize)
            \subseteq {to_string(transfers[LastFrom].block_sz)}
        /\ OackValues(sent[1], StrTsize)
            \subseteq {to_string(Len(Files[transfers[LastFrom].file]))}

\* C8: a datagram of two octets or more whose big-endian opcode is neither
\* 00 01 nor 00 04 is answered with ERROR code 20 and leaves the transfer
\* table as it was.
C8Orig ==
    [][(Len(rcvd'[1].buf) >= 2
            /\ ~IsOp(rcvd'[1].buf, RRQ) /\ ~IsOp(rcvd'[1].buf, ACK))
        => (/\ sent' # None /\ IsOp(sent'[1], ERROR)
            /\ BlockOf(sent'[1]) = 20
            /\ transfers' = transfers)]_vars

\* C9: when the file read of a transfer fails, the ACK is answered with
\* ERROR code 2 and not with DATA, and the transfer is out of the table.
C9Orig ==
    io = "err" =>
        /\ Replied(ERROR)
        /\ BlockOf(sent[1]) = 2
        /\ LastFrom \notin DOMAIN transfers

\* C10: an RRQ that names no file that can be opened is answered with ERROR
\* code 1 and leaves every entry of the transfer table, the sender's
\* included, as it was.
C10Thm ==
    [][(IsOp(rcvd'[1].buf, RRQ) /\ ~NamesFile(rcvd'[1].buf))
        => (/\ sent' # None /\ IsOp(sent'[1], ERROR)
            /\ BlockOf(sent'[1]) = 1
            /\ transfers' = transfers)]_vars

\* A request for a missing file has been refused while its sender is in the
\* middle of a transfer and the other endpoint has one too.
C10Wit ==
    /\ rcvd # None /\ LastFrom = "a" /\ IsOp(LastBuf, RRQ)
    /\ StringsOf(LastBuf) # <<>> /\ StringsOf(LastBuf)[1] = NameMissing
    /\ sent = Some(error(1, MsgNoSuchFile))
    /\ "a" \in DOMAIN transfers
    /\ transfers["a"].block_cnt >= 1 /\ ~transfers["a"].done
    /\ "b" \in DOMAIN transfers

(* ------------------------- the packet builders ------------------------- *)

\* TFTP::wrq: vec![WRQ, 0x02], then filename and mode, each NUL-terminated.
wrq(filname, mode) ==
    <<WRQ, 2>> \o str_to_bytes(filname) \o str_to_bytes(mode)

\* TFTP::rrq: the WRQ bytes with wrq[1] = RRQ.
rrq(filname, mode) ==
    [wrq(filname, mode) EXCEPT ![2] = RRQ]

StrMemtest == <<109, 101, 109, 116, 101, 115, 116, 95, 120, 56, 54, 46, 48>>

EncNames == {NameF, NameMissing, StrMemtest, <<>>}
EncModes == {StrOctet, StrX, <<>>}
EncBlocks == {0, 1, 33, 43, 255, 256, 257, 2137, 32768, 65280, 65534, 65535}
EncPayloads ==
    {<<>>, <<1>>, <<1, 2, 3>>, <<0, 0>>, <<255>>, <<0, 3, 0, 1>>, <<11, 12, 13>>}

Called(fn, inp, out) ==
    /\ call' = Some([fn |-> fn, inp |-> inp, out |-> out])
    /\ UNCHANGED <<tftp_vars, pxeb, dgb>>

CallRrq ==
    \E f \in EncNames, m \in EncModes : Called("rrq", <<f, m>>, rrq(f, m))

CallWrq ==
    \E f \in EncNames, m \in EncModes : Called("wrq", <<f, m>>, wrq(f, m))

CallAck ==
    \E b \in EncBlocks : Called("ack", <<b>>, ack(b))

CallData ==
    \E b \in EncBlocks, p \in EncPayloads : Called("data", <<b, p>>, data(b, p))

NextEnc == CallRrq \/ CallWrq \/ CallAck \/ CallData

SpecEnc == Init /\ [][NextEnc]_vars

CalledFn(fn) == call # None /\ call[1].fn = fn

(* ----------------------------- C11 .. C12 ------------------------------ *)

\* C11: rrq(f, m) is 00 01, f, 00, m, 00 and wrq(f, m) is the same octets
\* with the second one 02.
C11Orig ==
    /\ CalledFn("rrq") =>
        call[1].out = <<0, 1>> \o call[1].inp[1] \o <<0>>
                        \o call[1].inp[2] \o <<0>>
    /\ CalledFn("wrq") =>
        call[1].out = <<0, 2>> \o call[1].inp[1] \o <<0>>
                        \o call[1].inp[2] \o <<0>>

\* C12: ack(b) is the four octets 00 04 hi lo and data(b, p) is 00 03 hi lo
\* followed by p, where hi lo is b as a big-endian 16-bit number.
C12Thm ==
    (CalledFn("ack") \/ CalledFn("data")) =>
        LET out == call[1].out
            b == call[1].inp[1]
        IN  /\ Len(out) >= 4
            /\ out[1] = 0
            /\ out[2] = (IF CalledFn("ack") THEN 4 ELSE 3)
            /\ out[3] \in 0..255 /\ out[4] \in 0..255
            /\ out[3] * 256 + out[4] = b
            /\ CalledFn("ack") => Len(out) = 4
            /\ CalledFn("data") => SubSeq(out, 5, Len(out)) = call[1].inp[2]

\* data(2137, [1, 2, 3]) has been built: hi = 08, lo = 59 hex.
C12Wit ==
    /\ CalledFn("data")
    /\ call[1].inp = <<2137, <<1, 2, 3>>>>
    /\ call[1].out = <<0, 3, 8, 89, 1, 2, 3>>

(* ------------------------------ DHCP codec ----------------------------- *)

\* mem::size_of::<DHCPBody>() of the packed struct, magic cookie included.
BodySize == 240

RECURSIVE Flatten(_)
Flatten(seqs) ==
    IF seqs = <<>> THEN <<>> ELSE Head(seqs) \o Flatten(Tail(seqs))

Reverse(x) == [i \in 1..Len(x) |-> x[Len(x) + 1 - i]]

\* mem::transmute of BodySize octets into the packed DHCPBody: every field
\* is the octets at its offset; an integer field is held as its octets in
\* memory order.  The fields are listed by name.
body_of_bytes(b) ==
    [chaddr |-> SubSeq(b, 29, 44), ciaddr |-> SubSeq(b, 13, 16),
     filename |-> SubSeq(b, 109, 236), flags |-> SubSeq(b, 11, 12),
     giaddr |-> SubSeq(b, 25, 28), hlen |-> b[3], hops |-> b[4],
     htype |-> b[2], mcookie |-> SubSeq(b, 237, 240), op |-> b[1],
     secs |-> SubSeq(b, 9, 10), siaddr |-> SubSeq(b, 21, 24),
     sname |-> SubSeq(b, 45, 108), xid |-> SubSeq(b, 5, 8),
     yiaddr |-> SubSeq(b, 17, 20)]

\* mem::transmute of a DHCPBody into its BodySize octets.
body_to_bytes(body) ==
    <<body.op, body.htype, body.hlen, body.hops>>
        \o body.xid \o body.secs \o body.flags
        \o body.ciaddr \o body.yiaddr \o body.siaddr \o body.giaddr
        \o body.chaddr \o body.sname \o body.filename \o body.mcookie

\* u16::swap_bytes / u32::swap_bytes on the octets of the integer.
swap_bytes(x) == Reverse(x)

\* DHCPBody::swap_endianess.
body_swap_endianess(body) ==
    [body EXCEPT !.xid = swap_bytes(@), !.secs = swap_bytes(@),
                 !.flags = swap_bytes(@), !.mcookie = swap_bytes(@)]

\* DHCPDgram::swap_endianess.
swap_endianess(dgram) ==
    [dgram EXCEPT !.body = body_swap_endianess(@)]

\* DHCPOption(code, length, value).
DHCPOption(code, length, value) == <<code, length, value>>

\* The loop of read_options from index idx (counted from 0) on.
RECURSIVE read_options_from(_, _, _)
read_options_from(bytes, idx, options) ==
    IF idx < Len(bytes) /\ bytes[idx + 1] = 0
    THEN read_options_from(bytes, idx + 1,
                           Append(options, DHCPOption(0, 0, <<>>)))
    ELSE IF idx + 1 < Len(bytes)
    THEN LET code == bytes[idx + 1]
             length == bytes[idx + 2]
         IN  IF idx + length + 2 > Len(bytes) THEN options
             ELSE read_options_from(bytes, idx + length + 2,
                    Append(options,
                           DHCPOption(code, length,
                                      SubSeq(bytes, idx + 3, idx + length + 2))))
    ELSE options

read_options(bytes) == read_options_from(bytes, 0, <<>>)

\* DHCPDgram::from_bytes.
from_bytes(bytes) ==
    IF Len(bytes) < BodySize THEN None
    ELSE Some([body |-> body_of_bytes(SubSeq(bytes, 1, BodySize)),
               options |-> read_options(SubSeq(bytes, BodySize + 1,
                                               Len(bytes)))])

\* DHCPDgram::as_bytes: the body, then code, length and value of each option.
as_bytes(dgram) ==
    body_to_bytes(dgram.body)
        \o Flatten([i \in 1..Len(dgram.options) |->
                        <<dgram.options[i][1], dgram.options[i][2]>>
                            \o dgram.options[i][3]])

\* DHCPDgram::option: the value of the first option with that code.
DHCPDgram_option(dgram, id) ==
    LET is == {i \in 1..Len(dgram.options) : dgram.options[i][1] = id}
    IN  IF is = {} THEN None
        ELSE Some(dgram.options[CHOOSE i \in is : \A j \in is : i <= j][3])

(* --------------------------- DHCPDgramBuilder -------------------------- *)

\* DHCPDgramBuilder::option: the length is data.len() as u8.
DHCPDgramBuilder_option(b, code, bytes) ==
    [b EXCEPT !.options = Append(@, DHCPOption(code, Len(bytes) % 256, bytes))]

DHCPDgramBuilder_body(b, dhcp) ==
    [b EXCEPT !.dhcp = Some(dhcp)]

DHCPDgramBuilder_end(b) ==
    DHCPDgramBuilder_option(b, 255, <<>>)

\* DHCPDgramBuilder::build: Option<DHCPDgram>.
DHCPDgramBuilder_build(b) ==
    IF b.dhcp = None THEN None
    ELSE Some([body |-> b.dhcp[1], options |-> b.options])

DHCPDgramBuilder_default == [dhcp |-> None, options |-> <<>>]

(* ------------------------------ PXEBuilder ----------------------------- *)

\* struct PXEOption { code, data }.
PXEOption(code, bytes) == <<code, bytes>>

PXEBuilder_option(b, tag, bytes) ==
    Append(b, PXEOption(tag, bytes))

\* PXEBuilder::start: 0b00000110 | (!discover as u8) << 3.
PXEBuilder_start(b, discover) ==
    PXEBuilder_option(b, 6, <<6 + (IF discover THEN 0 ELSE 1) * 8>>)

PXEBuilder_end(b) ==
    PXEBuilder_option(b, 255, <<>>)

PXEBuilder_menu_prompt(b, timeout, text) ==
    PXEBuilder_option(b, 10, <<timeout>> \o text)

PXEBuilder_menu_items(b, items) ==
    PXEBuilder_option(b, 9,
        Flatten([i \in 1..Len(items) |->
                    <<8, 0, Len(items[i]) % 256>> \o items[i]]))

PXEBuilder_boot_servers(b, ips) ==
    PXEBuilder_option(b, 8, <<0, 0, Len(ips) % 256>> \o Flatten(ips))

PXEBuilder_mcast(b, addr) ==
    PXEBuilder_option(b, 7, addr)

\* PXEOption::len.
PXEOption_len(o) == Len(o[2]) % 256

\* build writing a length octet for the END option as for every other.
PXEBuilder_build_endlen(b) ==
    Flatten([i \in 1..Len(b) |->
                <<b[i][1], PXEOption_len(b[i])>> \o b[i][2]])

\* PXEBuilder::build: code, length and data of each option; no length for
\* the END option.
PXEBuilder_build(b) ==
    Flatten([i \in 1..Len(b) |->
                IF b[i][1] # 255
                THEN <<b[i][1], PXEOption_len(b[i])>> \o b[i][2]
                ELSE <<b[i][1]>> \o b[i][2]])

PXEBuilder_default == <<>>

(* ---------------------------- DHCP responder --------------------------- *)

BOOT_REQUEST == 1
BOOT_REPLY == 2
DISCOVER == 1
OFFER == 2
REQUEST == 3
VENDOR_OPTIONS == 43
MESSAGE_TYPE == 53
SERVER_ID == 54
CLASS_ID == 60

StrPXEServer == <<80, 88, 69, 83, 101, 114, 118, 101, 114>>
StrPxelinux == <<112, 120, 101, 108, 105, 110, 117, 120, 46, 48>>
StrPXEClient == <<80, 88, 69, 67, 108, 105, 101, 110, 116>>

\* The copy_string closure of discover: zip(target, string) overwrites as
\* many octets of the target as the string has.
copy_string(string, target) ==
    [i \in 1..Len(target) |->
        IF i <= Len(string) THEN string[i] ELSE target[i]]

\* discover with the server identifier put before the message type.
discover_reordered(ip, dhcp) ==
    LET body == [dhcp.body EXCEPT
                    !.op = BOOT_REPLY,
                    !.sname = copy_string(StrPXEServer, @),
                    !.filename = copy_string(StrPxelinux, @)]
        pxe == PXEBuilder_build(
                 PXEBuilder_end(
                   PXEBuilder_boot_servers(
                     PXEBuilder_start(PXEBuilder_default, FALSE), <<ip>>)))
    IN  DHCPDgramBuilder_build(
          DHCPDgramBuilder_end(
            DHCPDgramBuilder_option(
              DHCPDgramBuilder_option(
                DHCPDgramBuilder_option(
                  DHCPDgramBuilder_option(
                    DHCPDgramBuilder_body(DHCPDgramBuilder_default, body),
                    SERVER_ID, ip),
                  MESSAGE_TYPE, <<OFFER>>),
                CLASS_ID, StrPXEClient),
              VENDOR_OPTIONS, pxe)))

\* discover(addr, dhcp): Option<DHCPDgram>; ip is addr.ip().octets().
discover(ip, dhcp) ==
    LET body == [dhcp.body EXCEPT
                    !.op = BOOT_REPLY,
                    !.sname = copy_string(StrPXEServer, @),
                    !.filename = copy_string(StrPxelinux, @)]
        pxe == PXEBuilder_build(
                 PXEBuilder_end(
                   PXEBuilder_boot_servers(
                     PXEBuilder_start(PXEBuilder_default, FALSE), <<ip>>)))
    IN  DHCPDgramBuilder_build(
          DHCPDgramBuilder_end(
            DHCPDgramBuilder_option(
              DHCPDgramBuilder_option(
                DHCPDgramBuilder_option(
                  DHCPDgramBuilder_option(
                    DHCPDgramBuilder_body(DHCPDgramBuilder_default, body),
                    MESSAGE_TYPE, <<OFFER>>),
                  SERVER_ID, ip),
                CLASS_ID, StrPXEClient),
              VENDOR_OPTIONS, pxe)))

\* One iteration of the loop of main on a received datagram: Option of the
\* octets broadcast.  A datagram that from_bytes rejects keeps listen
\* waiting: nothing is sent.
main_iteration(ip, buf) ==
    LET parsed == from_bytes(buf)
    IN  IF parsed = None THEN None
        ELSE LET dhcp == swap_endianess(parsed[1])
                 res == IF dhcp.body.op = BOOT_REPLY THEN None
                        ELSE IF DHCPDgram_option(dhcp, MESSAGE_TYPE)
                                    = Some(<<DISCOVER>>)
                        THEN discover(ip, dhcp)
                        ELSE IF DHCPDgram_option(dhcp, MESSAGE_TYPE)
                                    = Some(<<REQUEST>>)
                        THEN None
                        ELSE None
             IN  IF res = None THEN None
                 ELSE Some(as_bytes(swap_endianess(res[1])))

(* ----------------------- DHCP datagrams received ----------------------- *)

Zeros(n) == [i \in 1..n |-> 0]
Filled(n, x) == [i \in 1..n |-> x]

\* A BOOTP body as a client puts it on the wire: Ethernet, a transaction
\* id, the broadcast flag, no addresses, the magic cookie.
ClientXid == <<222, 173, 190, 239>>
ClientMac == <<82, 84, 0, 18, 52, 86>>
MagicCookie == <<99, 130, 83, 99>>
WireBody(op, fill) ==
    <<op, 1, 6, 0>> \o ClientXid \o <<0, 4>> \o <<128, 0>>
        \o Zeros(16) \o ClientMac \o Zeros(10)
        \o Filled(64, fill) \o Filled(128, fill) \o MagicCookie

DhcpOps == {0, 1, 2, 3}
DhcpFills == {0, 65}

\* Option regions: message types, pads, the end marker last or followed by
\* more octets, a truncated option, no option at all.
OptionRegions ==
    { <<53, 1, 1, 255>>,
      <<53, 1, 1, 60, 9>> \o StrPXEClient \o <<255>>,
      <<53, 1, 1, 255, 0, 0>>,
      <<0, 53, 1, 1, 255, 0>>,
      <<53, 1, 1, 0, 0, 255>>,
      <<53, 1, 3, 255>>,
      <<53, 1, 8, 255>>,
      <<53, 1, 2, 255>>,
      <<53, 2, 1, 1, 255>>,
      <<53, 1, 3, 53, 1, 1, 255>>,
      <<60, 9>> \o StrPXEClient \o <<255>>,
      <<255, 0, 53, 1, 1>>,
      <<53, 1, 1, 60, 9, 80, 88>>,
      <<255>>,
      <<>> }

ShortDgrams ==
    { <<>>, <<1>>, SubSeq(WireBody(1, 0), 1, 236),
      SubSeq(WireBody(1, 0), 1, 239) }

DhcpDgrams ==
    { WireBody(op, fill) \o region :
        op \in DhcpOps, fill \in DhcpFills, region \in OptionRegions }
    \cup ShortDgrams

ServerIps == { <<192, 168, 1, 103>>, <<10, 0, 0, 1>> }

\* from_bytes, then as_bytes of what it returned.
CallRoundTrip ==
    \E buf \in DhcpDgrams :
        Called("round_trip", buf,
               IF from_bytes(buf) = None THEN None
               ELSE Some(as_bytes(from_bytes(buf)[1])))

\* from_bytes alone: Option of the options parsed, each as
\* <<code, length, value>>.
CallFromBytes ==
    \E buf \in DhcpDgrams :
        Called("from_bytes", buf,
               IF from_bytes(buf) = None THEN None
               ELSE Some(from_bytes(buf)[1].options))

\* One datagram through the loop of main of a server started on ip.
MainIteration ==
    \E ip \in ServerIps, buf \in DhcpDgrams :
        Called("main", <<ip, buf>>, main_iteration(ip, buf))

NextDhcp == CallRoundTrip \/ CallFromBytes \/ MainIteration

SpecDhcp == Init /\ [][NextDhcp]_vars

(* ----------------------- reading a DHCP datagram ----------------------- *)

\* The option region of a datagram as RFC 2132 lays it out: pads are
\* skipped, an option is code, length, value, and the end marker 255 closes
\* the region.  RegionEnd is the index of the end marker counted from 1, or
\* 0 when the region is not well formed.
RECURSIVE RegionEndFrom(_, _)
RegionEndFrom(region, i) ==
    IF i > Len(region) THEN 0
    ELSE IF region[i] = 255 THEN i
    ELSE IF region[i] = 0 THEN RegionEndFrom(region, i + 1)
    ELSE IF i + 1 > Len(region) \/ i + 1 + region[i + 1] > Len(region) THEN 0
    ELSE RegionEndFrom(region, i + 2 + region[i + 1])

RegionEnd(region) == RegionEndFrom(region, 1)

\* The options before the end marker, pads left out, as <<code, value>>.
RECURSIVE RegionOptionsFrom(_, _)
RegionOptionsFrom(region, i) ==
    IF i > Len(region) \/ region[i] = 255 THEN <<>>
    ELSE IF region[i] = 0 THEN RegionOptionsFrom(region, i + 1)
    ELSE IF i + 1 > Len(region) \/ i + 1 + region[i + 1] > Len(region)
    THEN <<>>
    ELSE <<<<region[i], SubSeq(region, i + 2, i + 1 + region[i + 1])>>>>
            \o RegionOptionsFrom(region, i + 2 + region[i + 1])

RegionOf(buf) == SubSeq(buf, BodySize + 1, Len(buf))

\* C13 (as stated): a datagram of a full body and a well formed option
\* region is parsed, and serialising the parsed datagram gives the octets
\* received, up to and including the end marker.
C13Orig ==
    CalledFn("round_trip") =>
        LET buf == call[1].inp
            out == call[1].out
            n == BodySize + RegionEnd(RegionOf(buf))
        IN  (Len(buf) >= BodySize /\ RegionEnd(RegionOf(buf)) > 0) =>
                /\ out # None
                /\ Len(out[1]) >= n
                /\ SubSeq(out[1], 1, n) = SubSeq(buf, 1, n)

\* The value of the first option with that code before the end marker of
\* the datagram, as an Option.
WireOption(buf, id) ==
    LET opts == RegionOptionsFrom(RegionOf(buf), 1)
        is == {i \in 1..Len(opts) : opts[i][1] = id}
    IN  IF is = {} THEN None
        ELSE Some(opts[CHOOSE i \in is : \A j \in is : i <= j][2])

\* The loop of main has answered the datagram it received: the address of
\* the server, the datagram and the octets sent.
Answered == CalledFn("main") /\ call[1].out # None
MainIp == call[1].inp[1]
MainBuf == call[1].inp[2]
MainSent == call[1].out[1]

\* C14 (as stated): a response is sent only for a received datagram with
\* op = BOOT_REQUEST whose option 53 is [DISCOVER]; for every other
\* datagram nothing is sent.
C14Orig ==
    Answered =>
        /\ Len(MainBuf) >= BodySize
        /\ MainBuf[1] = BOOT_REQUEST
        /\ WireOption(MainBuf, MESSAGE_TYPE) = Some(<<DISCOVER>>)

\* C15: every OFFER sent has op = BOOT_REPLY, the xid of the datagram it
\* answers, and before its end marker exactly the options 53 = [OFFER],
\* 54 = the server's address, 60 = "PXEClient", 43 = the PXE vendor block
\* of start(false), boot_servers of the server's address and end.
C15Thm ==
    Answered =>
        /\ MainSent[1] = BOOT_REPLY
        /\ SubSeq(MainSent, 5, 8) = SubSeq(MainBuf, 5, 8)
        /\ RegionEnd(RegionOf(MainSent)) > 0
        /\ RegionOptionsFrom(RegionOf(MainSent), 1)
             = << <<53, <<OFFER>>>>,
                  <<54, MainIp>>,
                  <<60, StrPXEClient>>,
                  <<43, <<6, 1, 14, 8, 7, 0, 0, 1>> \o MainIp \o <<255>>>> >>

\* A DISCOVER of a client has been answered by the server on 192.168.1.103.
C15Wit ==
    /\ Answered
    /\ MainIp = <<192, 168, 1, 103>>
    /\ MainBuf = WireBody(BOOT_REQUEST, 0) \o <<53, 1, 1, 255>>
    /\ SubSeq(MainSent, 5, 8) = ClientXid

\* C16 (as stated): in every OFFER the sname field is "PXEServer" followed
\* only by NUL octets and the filename field is "pxelinux.0" followed only
\* by NUL octets, whatever the fields of the DISCOVER held.
C16Orig ==
    Answered =>
        /\ SubSeq(MainSent, 45, 108) = StrPXEServer \o Zeros(55)
        /\ SubSeq(MainSent, 109, 236) = StrPxelinux \o Zeros(118)

(* --------------------------- using PXEBuilder -------------------------- *)

\* The number of options a builder is given before build.
MaxPxeOptions == 3

PxeIps == { <<192, 168, 1, 103>>, <<10, 0, 0, 1>> }
PxeIpLists ==
    { <<>>, << <<192, 168, 1, 103>> >>, << <<10, 0, 0, 1>> >>,
      << <<192, 168, 1, 103>>, <<10, 0, 0, 1>> >> }
PxePrompts == { <<0, <<>>>>, <<5, StrX>> }
PxeItems == { <<>>, <<StrX>>, <<StrX, StrOctet>> }
\* Tag and data of direct calls of option, an END option with data among
\* them.
PxeOptions ==
    { <<1, <<1>>>>, <<43, <<1, 2>>>>, <<6, <<7>>>>, <<6, <<14>>>>,
      <<255, <<0>>>> }

\* A builder method returns the builder with one more option.
PxeStep(b) ==
    /\ Len(pxeb) < MaxPxeOptions
    /\ pxeb' = b
    /\ call' = None
    /\ UNCHANGED <<tftp_vars, dgb>>

PxeOption ==
    \E o \in PxeOptions : PxeStep(PXEBuilder_option(pxeb, o[1], o[2]))
PxeStart == \E d \in BOOLEAN : PxeStep(PXEBuilder_start(pxeb, d))
PxeEnd == PxeStep(PXEBuilder_end(pxeb))
PxeMenuPrompt ==
    \E p \in PxePrompts : PxeStep(PXEBuilder_menu_prompt(pxeb, p[1], p[2]))
PxeMenuItems ==
    \E items \in PxeItems : PxeStep(PXEBuilder_menu_items(pxeb, items))
PxeBootServers ==
    \E ips \in PxeIpLists : PxeStep(PXEBuilder_boot_servers(pxeb, ips))
PxeMcast == \E addr \in PxeIps : PxeStep(PXEBuilder_mcast(pxeb, addr))

\* build consumes the builder; the next chain starts from the default one.
PxeBuild ==
    /\ call' = Some([fn |-> "pxe_build", inp |-> pxeb,
                     out |-> PXEBuilder_build(pxeb)])
    /\ pxeb' = PXEBuilder_default
    /\ UNCHANGED <<tftp_vars, dgb>>

NextPxe ==
    \/ PxeOption \/ PxeStart \/ PxeEnd \/ PxeMenuPrompt \/ PxeMenuItems
    \/ PxeBootServers \/ PxeMcast \/ PxeBuild

SpecPxe == Init /\ [][NextPxe]_vars

\* The options that start(false), boot_servers of the single address
\* 192.168.1.103 and end add to a builder.
C17Start == PXEBuilder_start(PXEBuilder_default, FALSE)[1]
C17Boot ==
    PXEBuilder_boot_servers(PXEBuilder_default, << <<192, 168, 1, 103>> >>)[1]
C17End == PXEBuilder_end(PXEBuilder_default)[1]

\* The serialisation of these options with lenBoot as the length octet of
\* the boot servers option.
C17Bytes(o, lenBoot) ==
    IF o = C17Start THEN <<6, 1, 14>>
    ELSE IF o = C17Boot THEN <<8, lenBoot, 0, 0, 1, 192, 168, 1, 103>>
    ELSE <<255>>

C17Built(lenBoot) ==
    (CalledFn("pxe_build")
        /\ \A i \in 1..Len(call[1].inp) :
              call[1].inp[i] \in {C17Start, C17Boot, C17End})
    => call[1].out
         = Flatten([i \in 1..Len(call[1].inp) |->
                        C17Bytes(call[1].inp[i], lenBoot)])

\* C17 (as stated): build serialises start(false) as 06 01 0e, boot_servers
\* of 192.168.1.103 as 08 08 00 00 01 c0 a8 01 67 and end as ff.
C17Orig == C17Built(8)

\* C17 (amended): build serialises start(false) as 06 01 0e, boot_servers of
\* 192.168.1.103 as 08 07 00 00 01 c0 a8 01 67 (the length octet counts the
\* seven value octets) and end as the single octet ff.
C17Thm == C17Built(7)

\* The chain start(false), boot_servers([192.168.1.103]), end was built.
C17Wit ==
    /\ CalledFn("pxe_build")
    /\ call[1].inp = <<C17Start, C17Boot, C17End>>
    /\ call[1].out = <<6, 1, 14, 8, 7, 0, 0, 1, 192, 168, 1, 103, 255>>

(* ------------------------ using DHCPDgramBuilder ----------------------- *)

\* The number of options a datagram builder is given before build.
MaxDgbOptions == 2

DgbCodes == {MESSAGE_TYPE, SERVER_ID, VENDOR_OPTIONS}
DgbData == { <<>>, <<OFFER>>, <<192, 168, 1, 103>>, Filled(255, 7),
             Filled(256, 7) }
DgbBodies == { body_of_bytes(WireBody(BOOT_REPLY, 0)) }

DgbStep(b) ==
    /\ dgb' = b
    /\ call' = None
    /\ UNCHANGED <<tftp_vars, pxeb>>

DgbOption ==
    \E code \in DgbCodes, bytes \in DgbData :
        /\ Len(dgb.options) < MaxDgbOptions
        /\ DgbStep(DHCPDgramBuilder_option(dgb, code, bytes))

DgbEnd ==
    /\ Len(dgb.options) < MaxDgbOptions
    /\ DgbStep(DHCPDgramBuilder_end(dgb))

DgbBody ==
    \E dhcp \in DgbBodies : DgbStep(DHCPDgramBuilder_body(dgb, dhcp))

\* build consumes the builder; the octets are as_bytes of the datagram
\* built, if one was built.
DgbBuild ==
    /\ call' = Some([fn |-> "dgram_build",
                     inp |-> [i \in 1..Len(dgb.options) |->
                                <<dgb.options[i][1], dgb.options[i][3]>>],
                     out |-> IF DHCPDgramBuilder_build(dgb) = None THEN None
                             ELSE Some(as_bytes(
                                        DHCPDgramBuilder_build(dgb)[1]))])
    /\ dgb' = DHCPDgramBuilder_default
    /\ UNCHANGED <<tftp_vars, pxeb>>

NextDgb == DgbOption \/ DgbEnd \/ DgbBody \/ DgbBuild

SpecDgb == Init /\ [][NextDgb]_vars

\* C18 (as stated): every option given to the builder with a code other
\* than 0 and 255 is written by as_bytes with a length octet equal to the
\* number of its value octets: read as code, length, value, the option
\* region of the datagram built gives back the options given, in order.
C18Orig ==
    (CalledFn("dgram_build") /\ call[1].out # None
        /\ \A i \in 1..Len(call[1].inp) : call[1].inp[i][1] \notin {0, 255})
    => RegionOptionsFrom(RegionOf(call[1].out[1]), 1) = call[1].inp

(* ------------------- the block counter at 2^16 blocks ------------------ *)

\* A transfer of f with block size 0 never ends: every block is empty and
\* done stays false.  WrapStart acknowledgements after its RRQ the server
\* has sent WrapStart empty DATA datagrams to endpoint a.  This
\* specification starts there; it keeps the last DATA datagram of every
\* endpoint and leaves wire, the record of all of them, alone.
WrapStart == 65533

\* The number of blocks a transfer is followed for from there on.
MaxWrapBlocks == 6

InitWrap ==
    /\ transfers = ("a" :> [block_cnt |-> WrapStart, done |-> FALSE,
                            block_sz |-> 0, file |-> NameF, pos |-> 0])
    /\ rcvd = Some([from |-> "a", buf |-> ack(WrapStart - 1)])
    /\ io = "ok"
    /\ sent = Some(data(WrapStart, <<>>))
    /\ wire = [c \in Clients |-> <<>>]
    /\ last = [c \in Clients |->
                 IF c = "a" THEN Some(data(WrapStart, <<>>)) ELSE None]
    /\ replaced = [c \in Clients |-> None]
    /\ LibInit

WrapDatagrams ==
    { <<0, RRQ>> \o Strings(<<NameF, StrOctet, StrBlksize, Dec1>>),
      <<0, RRQ>> \o Strings(<<NameG, StrOctet, StrBlksize, Dec0>>),
      <<0, RRQ>> \o Strings(<<NameMissing, StrOctet>>),
      ack(0),
      <<0, WRQ>> \o Strings(<<NameF, StrOctet>>),
      <<0>> }

\* One iteration of the loop; a transfer is followed for MaxWrapBlocks
\* blocks counted from block WrapStart.
RecvWrap ==
    \E from \in Clients : \E buf \in WrapDatagrams, fails \in BOOLEAN :
        /\ fails => IsOp(buf, ACK)
        /\ (IsOp(buf, ACK) /\ from \in DOMAIN transfers
                /\ ~transfers[from].done)
            => (transfers[from].block_cnt + U16 - WrapStart) % U16
                    < MaxWrapBlocks
        /\ Served(from, buf, fails)
        /\ UNCHANGED <<wire, replaced>>

NextWrap == RecvWrap

SpecWrap == InitWrap /\ [][NextWrap]_vars

\* A DATA datagram sent for a transfer is numbered 1 when it is the first
\* since the RRQ, and otherwise with the number of the one before it plus 1
\* modulo 2^16.
C19Numbered ==
    \A c \in Clients :
        (rcvd'[1].from = c /\ sent' # None /\ IsOp(sent'[1], DATA))
        => /\ last'[c] = sent'
           /\ BlockOf(sent'[1])
                = IF last[c] = None THEN 1
                  ELSE (BlockOf(last[c][1]) + 1) % U16

\* The block counter of a transfer that stays in the table changes only in
\* an iteration that produces a DATA datagram for it, numbered with the new
\* counter; an accepted RRQ puts a new transfer with counter 0 in its place.
C19Step ==
    \A c \in (DOMAIN transfers) \cap (DOMAIN transfers') :
        transfers'[c].block_cnt # transfers[c].block_cnt
        => /\ rcvd'[1].from = c
           /\ \/ /\ IsOp(rcvd'[1].buf, RRQ)
                 /\ transfers'[c].block_cnt = 0
              \/ /\ ~IsOp(rcvd'[1].buf, RRQ)
                 /\ sent' # None /\ IsOp(sent'[1], DATA)
                 /\ BlockOf(sent'[1]) = transfers'[c].block_cnt

\* C19: each DATA datagram of a transfer carries the block number of the
\* previous one plus 1 modulo 2^16, the first after the RRQ carries 1, the
\* one after 65535 carries 0, and block_cnt changes only when a DATA
\* datagram is produced.
C19Thm == [][C19Numbered /\ C19Step]_vars

\* Block 65535 of the transfer of endpoint a has been followed by block 0,
\* and a transfer begun by the other endpoint has sent its block 1.
C19Wit ==
    /\ "a" \in DOMAIN transfers
    /\ transfers["a"].file = NameF /\ transfers["a"].block_sz = 0
    /\ last["a"] # None /\ BlockOf(last["a"][1]) = 0
    /\ rcvd[1].from = "a" /\ sent = last["a"]
    /\ last["b"] # None /\ BlockOf(last["b"][1]) = 1

(* --------------------------------- C20 --------------------------------- *)

\* C20 (as stated): the strings after filename and mode are taken two by
\* two as (name, value) pairs and only the value of a pair named blksize
\* sets block_sz: a transfer whose block size is not the default was asked
\* for with a blksize pair of that value.
C20Orig ==
    (rcvd # None /\ IsOp(LastBuf, RRQ) /\ Replied(OPT_ACK)
        /\ transfers[LastFrom].block_sz # DefaultBlksize)
    => /\ Requested(LastBuf, StrBlksize) # None
       /\ parse_u16(Requested(LastBuf, StrBlksize)[1])
            = Some(transfers[LastFrom].block_sz)

(* --------------------------------- C21 --------------------------------- *)

NotPad(o) == o[1] # 0

\* C21 (as stated): from_bytes stores the end marker 255 of the option
\* region as an option of length 0 without a value, also when it is the
\* last octet, and parses nothing after it: pads aside, the options parsed
\* are those before the end marker followed by the end option.
C21Orig ==
    (CalledFn("from_bytes") /\ call[1].out # None
        /\ RegionEnd(RegionOf(call[1].inp)) > 0)
    => LET before == RegionOptionsFrom(RegionOf(call[1].inp), 1)
       IN  SelectSeq(call[1].out[1], NotPad)
             = [i \in 1..Len(before) |->
                    <<before[i][1], Len(before[i][2]), before[i][2]>>]
                 \o << <<255, 0, <<>>>> >>

(* --------------------------------- C22 --------------------------------- *)

\* The transfer table with the entries of all endpoints but c taken out.
Alone(c) == [k \in (DOMAIN transfers) \cap {c} |-> transfers[k]]

\* An iteration leaves the entries of the endpoints it did not hear from as
\* they were, and what it sends to the sender and does to the sender's entry
\* is what it would send and do were the sender's entry the only one.
C22Step ==
    LET from == rcvd'[1].from
        alone == listen(Alone(from), from, rcvd'[1].buf, io' = "err")
    IN  /\ \A c \in Clients \ {from} :
              /\ (c \in DOMAIN transfers') = (c \in DOMAIN transfers)
              /\ c \in DOMAIN transfers => transfers'[c] = transfers[c]
        /\ sent' = IF alone.res.ok THEN Some(alone.res.val) ELSE None
        /\ (from \in DOMAIN transfers') = (from \in DOMAIN alone.transfers)
        /\ from \in DOMAIN transfers'
              => transfers'[from] = alone.transfers[from]

\* C22: handling a datagram from one endpoint never changes the transfer
\* entry of another, and the reply to it is settled by the sender's own
\* entry and datagram, so that under every interleaving an endpoint gets the
\* replies it would get alone.
C22Thm == [][C22Step]_vars

\* Both endpoints are in the middle of a transfer, their datagrams
\* interleaved: b has just been sent its first block after a was sent two.
C22Wit ==
    /\ "a" \in DOMAIN transfers /\ "b" \in DOMAIN transfers
    /\ Len(wire["a"]) = 2 /\ Len(wire["b"]) = 1
    /\ rcvd[1].from = "b" /\ Replied(DATA)

(* ----------------------- a transfer replaced: C23 ---------------------- *)

ReplaceDatagrams ==
    { <<0, RRQ>> \o Strings(<<NameF, StrOctet, StrBlksize, Dec2>>),
      <<0, RRQ>> \o Strings(<<NameG, StrOctet>>),
      <<0, RRQ>> \o Strings(<<NameMissing, StrOctet>>),
      ack(0),
      <<0, WRQ>> \o Strings(<<NameF, StrOctet>>) }

\* One iteration of the loop, noting over which transfer, if any, an
\* accepted RRQ inserts the new one.
RecvReplace ==
    \E from \in Clients : \E buf \in ReplaceDatagrams, fails \in BOOLEAN :
        /\ fails => IsOp(buf, ACK)
        /\ (IsOp(buf, ACK) /\ from \in DOMAIN transfers
                /\ ~transfers[from].done)
            => transfers[from].block_cnt < MaxBlocks
        /\ Recorded(from, buf, fails)
        /\ replaced' = [replaced EXCEPT ![from] =
                          IF IsOp(buf, RRQ) /\ sent' # None
                                /\ IsOp(sent'[1], OPT_ACK)
                          THEN IF from \in DOMAIN transfers
                               THEN Some(<<transfers[from].file,
                                           transfers[from].block_cnt>>)
                               ELSE None
                          ELSE IF from \notin DOMAIN transfers' THEN None
                          ELSE @]

NextReplace == RecvReplace

SpecReplace == Init /\ [][NextReplace]_vars

\* An accepted RRQ of an endpoint that has a transfer leaves it with a
\* transfer of the file asked for, at block 0 and not done.
C23Inserted ==
    \A c \in DOMAIN transfers :
        (rcvd'[1].from = c /\ IsOp(rcvd'[1].buf, RRQ)
            /\ sent' # None /\ IsOp(sent'[1], OPT_ACK))
        => /\ c \in DOMAIN transfers'
           /\ transfers'[c].block_cnt = 0
           /\ transfers'[c].done = FALSE
           /\ transfers'[c].pos = 0
           /\ transfers'[c].file = StringsOf(rcvd'[1].buf)[1]
           /\ replaced'[c]
                = Some(<<transfers[c].file, transfers[c].block_cnt>>)

\* The first ACK of an endpoint whose transfer replaced another is answered
\* with DATA block 1, holding the first block of the file of the new
\* transfer when the file is read and nothing when the read fails.
C23FirstBlock ==
    \A c \in DOMAIN transfers :
        (replaced[c] # None /\ last[c] = None
            /\ rcvd'[1].from = c /\ IsOp(rcvd'[1].buf, ACK))
        => /\ sent' # None /\ IsOp(sent'[1], DATA)
           /\ BlockOf(sent'[1]) = 1
           /\ Payload(sent'[1])
                = IF io' = "err" THEN <<>>
                  ELSE SubSeq(Files[transfers[c].file], 1,
                              Min(transfers[c].block_sz,
                                  Len(Files[transfers[c].file])))

\* C23: a successful RRQ from an endpoint that has a transfer replaces it:
\* the endpoint's entry has block_cnt 0 and done unset, and its next ACK
\* yields DATA block 1 of the file newly asked for.
C23Thm == [][C23Inserted /\ C23FirstBlock]_vars

\* Endpoint a, one block into a transfer of f, asked for g and has been
\* sent block 1 of g in answer to its next ACK.
C23Wit ==
    /\ replaced["a"] = Some(<<NameF, 1>>)
    /\ "a" \in DOMAIN transfers /\ transfers["a"].file = NameG
    /\ rcvd[1].from = "a" /\ IsOp(LastBuf, ACK)
    /\ sent = Some(data(1, Files[NameG]))
    /\ wire["a"] = <<data(1, Files[NameG])>>

====
